---- MODULE Spec2Model ----
(***************************************************************************)
(* Model of the interactive prompt engine of VancedHelper:                 *)
(* PromptManager (src/unnamed/part_000) with its static registry of users  *)
(* that have a prompt open, its message() / reaction() flows, the quit     *)
(* keyword, the validation of the input against a RegExp or an allow-list, *)
(* the retry recursion and chooseOne(); and of the pager of the            *)
(* troubleshoot command (src/commands/troubleshoot.js): the page argument, *)
(* the navigation reactions and the two reaction collectors.               *)
(*                                                                         *)
(* A text is a sequence of one-character strings.  An emoji is a record    *)
(* [id, name] of texts, the empty id standing for "no custom id" (null and *)
(* the empty string are both falsy in `emoji.id || emoji.name`).           *)
(*                                                                         *)
(* An async function runs without interruption from one await to the       *)
(* next, so each action below is one such run-to-completion segment.       *)
(***************************************************************************)
EXTENDS Integers, Sequences, FiniteSets, TLC

\* ------------------------------------------------------------------ bounds
NumSessions == 2   \* PromptManager objects alive
NumUsers == 2      \* distinct msg.author ids
MaxSends == 2      \* channel.send calls for UI messages per session
MaxChoices == 2    \* longest choice list handed to chooseOne
MaxEdits == 2      \* msg.edit calls of one troubleshoot pager

Sessions == 1..NumSessions
Users == 1..NumUsers
MsgIds == 1..MaxSends

\* ------------------------------------------------------------------- texts
Digits == <<"0", "1", "2", "3", "4", "5", "6", "7", "8", "9">>

\* String.prototype.toLowerCase, on the letters the model uses
LowerChar(c) ==
  CASE c = "Q" -> "q"
    [] c = "U" -> "u"
    [] c = "I" -> "i"
    [] c = "T" -> "t"
    [] OTHER -> c

toLowerCase(t) == [i \in 1..Len(t) |-> LowerChar(t[i])]

\* String.prototype.startsWith: str.startsWith(x)
startsWith(str, x) == Len(x) <= Len(str) /\ SubSeq(str, 1, Len(x)) = x

\* Array.prototype.indexOf, 0-based, -1 when absent
indexOf(arr, x) ==
  IF \E i \in 1..Len(arr) : arr[i] = x
    THEN (CHOOSE i \in 1..Len(arr) : arr[i] = x /\ \A j \in 1..(i - 1) : arr[j] # x) - 1
    ELSE -1

\* RegExpTest with a fault: the whole text must match the pattern
RegExpTest_FullMatch(pat, t) == t = pat

\* RegExp.prototype.test for a pattern that is a literal: a search, the
\* pattern is found somewhere in the text
RegExpTest(pat, t) ==
  \E i \in 0..(Len(t) - Len(pat)) : SubSeq(t, i + 1, i + Len(pat)) = pat

\* Number.prototype.toString, decimal, for n >= 0
RECURSIVE toString(_)
toString(n) ==
  IF n < 10 THEN <<Digits[n + 1]>>
  ELSE toString(n \div 10) \o <<Digits[(n % 10) + 1]>>

IsDigit(c) == \E d \in 1..10 : Digits[d] = c
DigitVal(c) == (CHOOSE d \in 1..10 : Digits[d] = c) - 1

NaN == -1   \* parseInt of a text that starts with no digit

\* parseInt: the value of the longest prefix of decimal digits, NaN if empty
RECURSIVE parseDigits(_, _, _)
parseDigits(t, i, acc) ==
  IF i > Len(t) \/ ~IsDigit(t[i]) THEN acc
  ELSE parseDigits(t, i + 1, acc * 10 + DigitVal(t[i]))

parseInt(t) ==
  IF Len(t) = 0 \/ ~IsDigit(t[1]) THEN NaN ELSE parseDigits(t, 1, 0)

QUIT == <<"q", "u", "i", "t">>

\* ------------------------------------------------------- validation specs
RegExpSpec(pat) == [kind |-> "RegExp", pat |-> pat, items |-> <<>>]
ArraySpec(items) == [kind |-> "Array", pat |-> <<>>, items |-> items]

\* IsQuit with a fault: the input is not lower-cased
IsQuit_CaseSensitive(content) == startsWith(QUIT, content)

\* line 70: 'quit'.startsWith(input.content.toLowerCase())
IsQuit(content) == startsWith(QUIT, toLowerCase(content))

\* lines 75-76: the two return conditions of message()
MessageAccepts(options, content) ==
  \/ options.kind = "RegExp" /\ RegExpTest(options.pat, content)
  \/ options.kind = "Array"
       /\ (Len(options.items) = 0 \/ indexOf(options.items, content) # -1)

\* input.emoji.id || input.emoji.name
IdOrName(emoji) == IF emoji.id # <<>> THEN emoji.id ELSE emoji.name

\* lines 116-117: the two return conditions of reaction()
ReactionAccepts(options, emoji) ==
  \/ options.kind = "RegExp" /\ RegExpTest(options.pat, emoji.name)
  \/ options.kind = "Array"
       /\ (Len(options.items) = 0 \/ indexOf(options.items, IdOrName(emoji)) # -1)

\* lines 126-130 of chooseOne: the allow-list "1".."N"
ChoiceOptions(choices) == ArraySpec([i \in 1..Len(choices) |-> toString(i)])

\* ChoiceResult with a fault: the typed index is used as a 0-based index
ChoiceResult_ZeroBased(choices, choice) ==
  LET k == parseInt(choice)
  IN IF k >= 0 /\ k < Len(choices) THEN choices[k + 1] ELSE "undefined"

\* line 136: choices[parseInt(choice) - 1], undefined when out of range
ChoiceResult(choices, choice) ==
  LET k == parseInt(choice) - 1
  IN IF k >= 0 /\ k < Len(choices) THEN choices[k + 1] ELSE "undefined"

\* ------------------------------------------------------- inputs of the model
IndexTexts == {toString(i) : i \in 1..(MaxChoices + 1)}

\* message contents a user may type
Texts ==
  {<<>>, <<"q">>, <<"Q", "U">>, QUIT, <<"q", "b">>, <<"b">>} \cup IndexTexts

MessageSpecs ==
  {RegExpSpec(<<"q">>), ArraySpec(<<>>), ArraySpec(<< <<"q", "b">>, <<"Q", "U">> >>)}

NoEmoji == [id |-> <<>>, name |-> <<>>]
CustomEmoji == [id |-> <<"7">>, name |-> <<"p">>]     \* a GuildEmoji
UnicodeEmoji == [id |-> <<>>, name |-> <<"x", "7">>]  \* a ReactionEmoji, id null
Emojis == {CustomEmoji, UnicodeEmoji}

ReactionSpecs ==
  {RegExpSpec(<<"p">>), RegExpSpec(<<"7">>), ArraySpec(<<>>),
   ArraySpec(<< <<"7">> >>), ArraySpec(<< <<"p">>, <<"x", "7">> >>)}

Elems == <<"A", "B", "C", "D", "E", "F">>
ChoiceLists == {[i \in 1..n |-> Elems[i]] : n \in 0..MaxChoices}

\* values of `input` and of the returned promise
NoInput == [tag |-> "none", content |-> <<>>, emoji |-> NoEmoji]
TextInput(t) == [tag |-> "text", content |-> t, emoji |-> NoEmoji]
EmojiInput(e) == [tag |-> "emoji", content |-> <<>>, emoji |-> e]

Void == [tag |-> "void", content |-> <<>>, emoji |-> NoEmoji, elem |-> "undefined"]
StringResult(t) == [tag |-> "string", content |-> t, emoji |-> NoEmoji, elem |-> "undefined"]
EmojiResult(e) == [tag |-> "emoji", content |-> <<>>, emoji |-> e, elem |-> "undefined"]
ElemResult(x) ==
  IF x = "undefined" THEN Void
  ELSE [tag |-> "elem", content |-> <<>>, emoji |-> NoEmoji, elem |-> x]

\* ------------------------------------------------- the troubleshoot pager
NumPages == 10   \* pages.length

\* String(undefined): what parseInt makes of a missing args[0]
MissingArg == <<"u", "n", "d", "e", "f", "i", "n", "e", "d">>

\* first arguments a user may give the command
PagerArgs ==
  {MissingArg, <<"a">>, <<"0">>, <<"-", "1">>, <<"1">>, <<"2">>, <<"3", "x">>,
   <<"1", "0">>, <<"1", "1">>}

\* the navigation emojis in the order the bot adds them, and any other emoji
NavEmojis == <<"rewind", "back", "forward", "fastforward">>
PagerEmojis == {NavEmojis[i] : i \in 1..Len(NavEmojis)} \cup {"other"}

\* message.author and another member of the channel
PagerUsers == {"author", "other"}

NoEvent == [user |-> "none", emoji |-> "none"]

\* parseInt with its sign: [nan, val]
parseIntSigned(t) ==
  LET neg == Len(t) > 0 /\ t[1] = "-"
      rest == IF Len(t) > 0 /\ t[1] \in {"-", "+"} THEN Tail(t) ELSE t
  IN IF Len(rest) = 0 \/ ~IsDigit(rest[1]) THEN [nan |-> TRUE, val |-> 0]
     ELSE [nan |-> FALSE,
           val |-> IF neg THEN 0 - parseDigits(rest, 1, 0) ELSE parseDigits(rest, 1, 0)]

\* PageOf with a fault: the page number is used as the index
PageOf_NoDecrement(arg) ==
  LET n == parseIntSigned(arg)
  IN IF n.nan \/ n.val > NumPages \/ n.val <= 0 THEN 0 ELSE n.val

\* lines 137-143: the page the command starts on
PageOf(arg) ==
  LET n == parseIntSigned(arg)
      p == IF n.nan \/ n.val > NumPages \/ n.val <= 0 THEN 0 ELSE n.val - 1
  IN IF p > NumPages THEN 0 ELSE p

\* ------------------------------------------------------------------- state
VARIABLES
  prompts,     \* PromptManager.prompts: the ids of the users with a prompt open
  user,        \* this.user.id of each session
  pc,          \* where the session's call stands: "idle" (no call in progress),
               \* "sendq" (reaction awaits sendQuestion), "react" (reaction awaits
               \* the pre-seeding), "await" (awaitMessages / awaitReactions)
  kind,        \* the entry point of the call: "message", "reaction", "chooseOne"
  options,     \* the `options` argument
  react,       \* the `react` argument of reaction()
  choices,     \* the `choices` argument of chooseOne()
  initial,     \* the `initial` argument of the current frame
  input,       \* the last `input` the call received
  outcome,     \* how the session's call returned, "Pending" until it does
  result,      \* what the session's call returned
  notice,      \* what the session's call sent with this.trigger.channel.send
  msg,         \* this.msg: 0 for undefined, else the session's k-th UI message
  nsent,       \* channel.send calls sendQuestion has made
  inflight,    \* the UI messages whose send has not completed yet
  deleted,     \* the UI messages that have been deleted
  embed,       \* the description of this.embed: "none", "question", "error"
  seeded,      \* the reactions the session has attached to its UI message
  \* the troubleshoot command
  pgPc,        \* "idle" (not executed), "static" (page sent, execute returned),
               \* "seeding" (index sent, msg.react awaited), "live" (collectors
               \* created), "ended" (collector ended)
  pgArg,       \* args[0] as a text, "undefined" when there is none
  page,        \* let page
  shown,       \* the index in pages of the embed the message displays
  nedit,       \* msg.edit calls made
  navSeeded,   \* how many of the four navigation reactions the bot has added
  pgEvent,     \* the last reaction event on the message: [user, emoji]
  reacted      \* for each emoji, the users other than the bot on that reaction

callVars == <<kind, options, react, choices, initial, input>>
retVars == <<outcome, result>>
uiVars == <<msg, nsent, inflight, deleted, embed, seeded>>
promptVars == <<prompts, user, pc, callVars, retVars, notice, uiVars>>
pagerVars == <<pgPc, pgArg, page, shown, nedit, navSeeded, pgEvent, reacted>>
vars == <<promptVars, pagerVars>>

\* has with a fault: the registry is asked for the User object, which is never
\* in a set of ids
has_UserObject(reg, u) == FALSE

\* delete with a fault: the entry is not removed
delete_Kept(reg, u) == reg

\* add with a fault: the entry is not stored
add_Dropped(reg, u) == reg

\* Set.prototype.has / add / delete on PromptManager.prompts
has(reg, u) == u \in reg
add(reg, u) == reg \cup {u}
delete(reg, u) == reg \ {u}

\* Message.deletable for a message the bot sent itself
deletable(s, m) == m \notin deleted[s]

Init ==
  /\ prompts = {}
  /\ user \in [Sessions -> Users]
  /\ pc = [s \in Sessions |-> "idle"]
  /\ kind = [s \in Sessions |-> "message"]
  /\ options = [s \in Sessions |-> ArraySpec(<<>>)]
  /\ react = [s \in Sessions |-> FALSE]
  /\ choices = [s \in Sessions |-> <<>>]
  /\ initial = [s \in Sessions |-> TRUE]
  /\ input = [s \in Sessions |-> NoInput]
  /\ outcome = [s \in Sessions |-> "None"]
  /\ result = [s \in Sessions |-> Void]
  /\ notice = [s \in Sessions |-> "none"]
  /\ msg = [s \in Sessions |-> 0]
  /\ nsent = [s \in Sessions |-> 0]
  /\ inflight = [s \in Sessions |-> {}]
  /\ deleted = [s \in Sessions |-> {}]
  /\ embed = [s \in Sessions |-> "none"]
  /\ seeded = [s \in Sessions |-> {}]
  /\ pgPc = "idle"
  /\ pgArg = MissingArg
  /\ page = 0
  /\ shown = 0
  /\ nedit = 0
  /\ navSeeded = 0
  /\ pgEvent = NoEvent
  /\ reacted = [e \in PagerEmojis |-> {}]

\* ------------------------------------------------------------ sendQuestion
\* lines 24-27: this.embed.setDescription(question), then send when this.msg
\* is undefined (this.msg is assigned when the send completes, see
\* SendAssign), else edit this.msg
sendQuestion(s, question) ==
  /\ embed' = [embed EXCEPT ![s] = question]
  /\ IF msg[s] = 0
       THEN /\ nsent' = [nsent EXCEPT ![s] = @ + 1]
            /\ inflight' = [inflight EXCEPT ![s] = @ \cup {nsent[s] + 1}]
       ELSE UNCHANGED <<nsent, inflight>>

\* sendQuestion may start a send only while the session has sends left
CanRender(s) == msg[s] = 0 => nsent[s] < MaxSends

\* the call of session s returns: `how` and the value
Return(s, how, value) ==
  /\ pc' = [pc EXCEPT ![s] = "idle"]
  /\ outcome' = [outcome EXCEPT ![s] = how]
  /\ result' = [result EXCEPT ![s] = value]

notify(s, text) == notice' = [notice EXCEPT ![s] = text]

\* the call of session s has the registry entry and has not returned yet
Pending(s) ==
  /\ outcome' = [outcome EXCEPT ![s] = "Pending"]
  /\ result' = [result EXCEPT ![s] = Void]
  /\ notice' = [notice EXCEPT ![s] = "none"]

\* ------------------------------------------------------------------ delete
\* Delete with a fault: the registry entry is removed, the message is kept
Delete_RegistryOnly(s, reg) ==
  /\ prompts' = delete(reg, user[s])
  /\ UNCHANGED deleted

\* lines 32-35, PromptManager.delete, run on the registry value reg
Delete(s, reg) ==
  /\ prompts' = delete(reg, user[s])
  /\ deleted' = [deleted EXCEPT ![s] =
                   IF msg[s] # 0 /\ deletable(s, msg[s]) THEN @ \cup {msg[s]} ELSE @]

\* --------------------------------------------------------------- message()
\* the arguments of an outermost call (initial = true)
SetCall(s, k, opts, rc, ch) ==
  /\ kind' = [kind EXCEPT ![s] = k]
  /\ options' = [options EXCEPT ![s] = opts]
  /\ react' = [react EXCEPT ![s] = rc]
  /\ choices' = [choices EXCEPT ![s] = ch]
  /\ initial' = [initial EXCEPT ![s] = TRUE]
  /\ input' = [input EXCEPT ![s] = NoInput]

\* Refuse with a fault: the refused call also removes the registry entry,
\* as this.delete() does
Refuse_Releases(s, reg) ==
  /\ notify(s, "You already have another prompt open!")
  /\ Return(s, "Refused", Void)
  /\ prompts' = delete(reg, user[s])

\* lines 51-53 and 98-100: the user already has a prompt open in the
\* registry value reg
Refuse(s, reg) ==
  /\ notify(s, "You already have another prompt open!")
  /\ Return(s, "Refused", Void)
  /\ prompts' = reg

\* lines 133-137: what chooseOne makes of the value message() returned
chooseOneReturn(ch, value) ==
  IF value.tag # "string" \/ value.content = <<>> THEN Void
  ELSE ElemResult(ChoiceResult(ch, value.content))

\* the value the outermost call of session s hands to its caller
Deliver(s, value) ==
  IF kind[s] = "chooseOne" THEN chooseOneReturn(choices[s], value) ELSE value

\* lines 51-58 with initial = true: message(question, opts) called on an idle
\* session, up to the await of awaitMessages
MessageEnter(s, k, opts, ch) ==
  /\ pc[s] = "idle"
  /\ IF has(prompts, user[s])
       THEN /\ Refuse(s, prompts)
            /\ UNCHANGED <<callVars, uiVars>>
       ELSE /\ CanRender(s)
            /\ prompts' = add(prompts, user[s])
            /\ SetCall(s, k, opts, FALSE, ch)
            /\ sendQuestion(s, "question")     \* line 56, not awaited
            /\ pc' = [pc EXCEPT ![s] = "await"]
            /\ Pending(s)
            /\ UNCHANGED <<msg, deleted, seeded>>
  /\ UNCHANGED user

MessageCall(s, specs) == \E opts \in specs : MessageEnter(s, "message", opts, <<>>)

\* lines 123-132: chooseOne calls message() with the allow-list "1".."N"
ChooseOneCall(s, lists) ==
  \E ch \in lists : MessageEnter(s, "chooseOne", ChoiceOptions(ch), ch)

\* lines 60, 68-80: awaitMessages resolved with the user's message `content`
MessageInput(s, texts) ==
  \E content \in texts :
    LET u == user[s]
        reg == delete(prompts, u)            \* line 60
    IN
    /\ pc[s] = "await"
    /\ kind[s] \in {"message", "chooseOne"}
    /\ input' = [input EXCEPT ![s] = TextInput(content)]
    /\ IF IsQuit(content)
         THEN /\ notify(s, "Successfully cancelled the prompt!")
              /\ Return(s, "Cancelled", Deliver(s, Void))
              /\ prompts' = reg
              /\ UNCHANGED <<initial, uiVars>>
         ELSE IF MessageAccepts(options[s], content)
         THEN /\ Return(s, "Resolved", Deliver(s, StringResult(content)))
              /\ prompts' = reg
              /\ UNCHANGED <<initial, notice, uiVars>>
         ELSE /\ CanRender(s)
              /\ sendQuestion(s, "error")    \* line 78
              /\ initial' = [initial EXCEPT ![s] = FALSE]
              /\ IF has(reg, u)              \* line 79 -> lines 51-58
                   THEN Refuse(s, reg)
                   ELSE /\ prompts' = add(reg, u)
                        /\ UNCHANGED <<pc, retVars, notice>>
              /\ UNCHANGED <<msg, deleted, seeded>>
    /\ UNCHANGED <<user, kind, options, react, choices>>

\* lines 60-66: awaitMessages resolved empty, the deadline passed
MessageTimeout(s) ==
  /\ pc[s] = "await"
  /\ kind[s] \in {"message", "chooseOne"}
  /\ input' = [input EXCEPT ![s] = NoInput]
  /\ Delete(s, delete(prompts, user[s]))
  /\ notify(s, "The prompt timed out!")
  /\ Return(s, "TimedOut", Deliver(s, Void))
  /\ UNCHANGED <<user, kind, options, react, choices, initial>>
  /\ UNCHANGED <<msg, nsent, inflight, embed, seeded>>

\* line 25: channel.send has completed, this.msg is assigned
SendAssign(s, m) ==
  /\ m \in inflight[s]
  /\ inflight' = [inflight EXCEPT ![s] = @ \ {m}]
  /\ msg' = [msg EXCEPT ![s] = m]

\* -------------------------------------------------------------- reaction()
\* AfterRender with a fault: reaction() waits for a send that is not made
AfterRender_Stuck(rc, opts) == "sendq"

\* line 104: where reaction() stands once the question is rendered
AfterRender(rc, opts) == IF rc /\ opts.kind = "Array" THEN "react" ELSE "await"

\* lines 98-106 with initial = true: reaction(question, opts, rc) called on an
\* idle session, up to its first await
ReactionCall(s, specs, reacts) ==
  \E opts \in specs, rc \in reacts :
    /\ pc[s] = "idle"
    /\ IF has(prompts, user[s])
         THEN /\ Refuse(s, prompts)
              /\ UNCHANGED <<callVars, uiVars>>
         ELSE /\ CanRender(s)
              /\ prompts' = add(prompts, user[s])
              /\ SetCall(s, "reaction", opts, rc, <<>>)
              /\ sendQuestion(s, "question")   \* line 103, awaited
              /\ pc' = [pc EXCEPT ![s] =
                          IF msg[s] = 0 THEN "sendq" ELSE AfterRender(rc, opts)]
              /\ Pending(s)
              /\ UNCHANGED <<msg, deleted, seeded>>
    /\ UNCHANGED user

\* a send of sendQuestion completes; a reaction() that awaits it goes on
SendDone(s) ==
  \E m \in MsgIds :
    /\ SendAssign(s, m)
    /\ pc' = [pc EXCEPT ![s] =
                IF pc[s] = "sendq" /\ m = nsent[s]
                  THEN AfterRender(react[s], options[s]) ELSE @]
    /\ UNCHANGED <<prompts, user, callVars, retVars, notice>>
    /\ UNCHANGED <<nsent, deleted, embed, seeded>>

\* line 104: every this.msg?.react(r) has completed
ReactDone(s) ==
  /\ pc[s] = "react"
  /\ seeded' = [seeded EXCEPT ![s] =
                  IF msg[s] # 0
                    THEN @ \cup {options[s].items[i] : i \in 1..Len(options[s].items)}
                    ELSE @]
  /\ pc' = [pc EXCEPT ![s] = "await"]
  /\ UNCHANGED <<prompts, user, callVars, retVars, notice>>
  /\ UNCHANGED <<msg, nsent, inflight, deleted, embed>>

\* lines 108, 116-120: awaitReactions resolved with the user's reaction
ReactionInput(s) ==
  \E emoji \in Emojis :
    LET u == user[s]
        reg == delete(prompts, u)            \* line 108
    IN
    /\ pc[s] = "await"
    /\ kind[s] = "reaction"
    /\ input' = [input EXCEPT ![s] = EmojiInput(emoji)]
    /\ IF ReactionAccepts(options[s], emoji)
         THEN /\ Return(s, "Resolved", EmojiResult(emoji))
              /\ prompts' = reg
              /\ UNCHANGED <<initial, notice, uiVars>>
         ELSE /\ CanRender(s)
              /\ sendQuestion(s, "error")    \* line 119
              /\ initial' = [initial EXCEPT ![s] = FALSE]
              /\ IF has(reg, u)              \* line 120 -> lines 98-106
                   THEN Refuse(s, reg)
                   ELSE /\ prompts' = add(reg, u)
                        /\ pc' = [pc EXCEPT ![s] = AfterRender(react[s], options[s])]
                        /\ UNCHANGED <<retVars, notice>>
              /\ UNCHANGED <<msg, deleted, seeded>>
    /\ UNCHANGED <<user, kind, options, react, choices>>

\* lines 108-114: awaitReactions resolved empty, the deadline passed
ReactionTimeout(s) ==
  /\ pc[s] = "await"
  /\ kind[s] = "reaction"
  /\ input' = [input EXCEPT ![s] = NoInput]
  /\ Delete(s, delete(prompts, user[s]))
  /\ notify(s, "The prompt timed out!")
  /\ Return(s, "TimedOut", Void)
  /\ UNCHANGED <<user, kind, options, react, choices, initial>>
  /\ UNCHANGED <<msg, nsent, inflight, embed, seeded>>

\* ---------------------------------------------------------- specifications
\* One session, every validation spec and every input of the model.
InitOne == Init /\ user = [s \in Sessions |-> 1]

NextOne ==
  \/ MessageCall(1, MessageSpecs) /\ UNCHANGED pagerVars
  \/ ChooseOneCall(1, ChoiceLists) /\ UNCHANGED pagerVars
  \/ MessageInput(1, Texts) /\ UNCHANGED pagerVars
  \/ MessageTimeout(1) /\ UNCHANGED pagerVars
  \/ ReactionCall(1, ReactionSpecs, BOOLEAN) /\ UNCHANGED pagerVars
  \/ SendDone(1) /\ UNCHANGED pagerVars
  \/ ReactDone(1) /\ UNCHANGED pagerVars
  \/ ReactionInput(1) /\ UNCHANGED pagerVars
  \/ ReactionTimeout(1) /\ UNCHANGED pagerVars

Spec == InitOne /\ [][NextOne]_vars

\* Every session, of any users, calling concurrently; one validation spec per
\* entry point, with an input it accepts, one it rejects and a quit prefix.
RaceSpecs == {RegExpSpec(<<"q">>)}
RaceTexts == {<<"q">>, <<"q", "b">>, <<"b">>}
RaceReactionSpecs == {ArraySpec(<< <<"7">> >>)}

NextRace ==
  \/ \E s \in Sessions : MessageCall(s, RaceSpecs) /\ UNCHANGED pagerVars
  \/ \E s \in Sessions : MessageInput(s, RaceTexts) /\ UNCHANGED pagerVars
  \/ \E s \in Sessions : MessageTimeout(s) /\ UNCHANGED pagerVars
  \/ \E s \in Sessions : ReactionCall(s, RaceReactionSpecs, {TRUE}) /\ UNCHANGED pagerVars
  \/ \E s \in Sessions : SendDone(s) /\ UNCHANGED pagerVars
  \/ \E s \in Sessions : ReactDone(s) /\ UNCHANGED pagerVars
  \/ \E s \in Sessions : ReactionInput(s) /\ UNCHANGED pagerVars
  \/ \E s \in Sessions : ReactionTimeout(s) /\ UNCHANGED pagerVars

\* the first session's user is user 1: the users are interchangeable
InitRace == Init /\ user[1] = 1

SpecRace == InitRace /\ [][NextRace]_vars

\* ------------------------------------------------- troubleshoot: execute
\* lines 137-145: the command is run with args[0] = arg
PagerExecute ==
  \E arg \in PagerArgs :
    /\ pgPc = "idle"
    /\ pgArg' = arg
    /\ page' = PageOf(arg)
    /\ shown' = PageOf(arg)                       \* channel.send(pages[page])
    /\ pgPc' = IF PageOf(arg) > 0 THEN "static" ELSE "seeding"
    /\ UNCHANGED <<nedit, navSeeded, pgEvent, reacted>>

\* lines 147-159: one msg.react completes; after the fourth the collectors
\* are created
PagerSeed ==
  /\ pgPc = "seeding"
  /\ navSeeded' = navSeeded + 1
  /\ pgPc' = IF navSeeded + 1 = Len(NavEmojis) THEN "live" ELSE "seeding"
  /\ UNCHANGED <<pgArg, page, shown, nedit, pgEvent, reacted>>

\* line 153 and line 157: the filters of the two collectors
CollectorFilter_Any(u) == TRUE   \* with a fault: the author is not checked
CollectorFilter(u) == u = "author"
SpamFilter(u) == u # "author"

\* PageTurn with a fault: forward does not stop on the last page
PageTurn_NoLastCheck(p, e) ==
  CASE e = "rewind" -> IF p = 0 THEN [page |-> p, edit |-> FALSE]
                       ELSE [page |-> 0, edit |-> TRUE]
    [] e = "back" -> IF p = 0 THEN [page |-> p, edit |-> FALSE]
                     ELSE [page |-> p - 1, edit |-> TRUE]
    [] e = "forward" -> [page |-> p + 1, edit |-> TRUE]
    [] e = "fastforward" -> IF p + 1 = NumPages THEN [page |-> p, edit |-> FALSE]
                            ELSE [page |-> NumPages - 1, edit |-> TRUE]
    [] OTHER -> [page |-> p, edit |-> FALSE]

\* lines 170-193: the switch on r.emoji.name, from page p: the new page and
\* whether msg.edit is called
PageTurn(p, e) ==
  CASE e = "rewind" -> IF p = 0 THEN [page |-> p, edit |-> FALSE]
                       ELSE [page |-> 0, edit |-> TRUE]
    [] e = "back" -> IF p = 0 THEN [page |-> p, edit |-> FALSE]
                     ELSE [page |-> p - 1, edit |-> TRUE]
    [] e = "forward" -> IF p + 1 = NumPages THEN [page |-> p, edit |-> FALSE]
                        ELSE [page |-> p + 1, edit |-> TRUE]
    [] e = "fastforward" -> IF p + 1 = NumPages THEN [page |-> p, edit |-> FALSE]
                            ELSE [page |-> NumPages - 1, edit |-> TRUE]
    [] OTHER -> [page |-> p, edit |-> FALSE]

\* a user adds a reaction that no collector listens to: before the collectors
\* exist, after they ended, or on a static page
PagerReactUnheard ==
  \E u \in PagerUsers, e \in PagerEmojis :
    /\ pgPc \in {"static", "seeding", "ended"}
    /\ u \notin reacted[e]
    /\ reacted' = [reacted EXCEPT ![e] = @ \cup {u}]
    /\ pgEvent' = [user |-> u, emoji |-> e]
    /\ UNCHANGED <<pgPc, pgArg, page, shown, nedit, navSeeded>>

\* lines 161-194: a user adds a reaction while the collectors run; the
\* collector whose filter passes the user handles it
PagerReact ==
  \E u \in PagerUsers, e \in PagerEmojis :
    LET turn == IF CollectorFilter(u) THEN PageTurn(page, e)
                ELSE [page |-> page, edit |-> FALSE]
    IN
    /\ pgPc = "live"
    /\ u \notin reacted[e]
    /\ turn.edit => nedit < MaxEdits
    /\ pgEvent' = [user |-> u, emoji |-> e]
    /\ reacted' = [reacted EXCEPT ![e] =
                     IF CollectorFilter(u) \/ SpamFilter(u) THEN {} ELSE @ \cup {u}]
    /\ page' = turn.page
    /\ shown' = IF turn.edit THEN turn.page ELSE shown    \* msg.edit(pages[page])
    /\ nedit' = IF turn.edit THEN nedit + 1 ELSE nedit
    /\ UNCHANGED <<pgPc, pgArg, navSeeded>>

\* lines 195-197: the collector ends after five minutes, every reaction of
\* every user is removed
PagerEnd ==
  /\ pgPc = "live"
  /\ pgPc' = "ended"
  /\ reacted' = [e \in PagerEmojis |-> {}]
  /\ navSeeded' = 0
  /\ UNCHANGED <<pgArg, page, shown, nedit, pgEvent>>

NextPager ==
  \/ PagerExecute /\ UNCHANGED promptVars
  \/ PagerSeed /\ UNCHANGED promptVars
  \/ PagerReactUnheard /\ UNCHANGED promptVars
  \/ PagerReact /\ UNCHANGED promptVars
  \/ PagerEnd /\ UNCHANGED promptVars

SpecPager == InitOne /\ [][NextPager]_vars

\* ------------------------------------------------------- public delete()
\* lines 32-35: delete() is public; a caller runs it on session s at any time
PublicDelete(s) ==
  /\ Delete(s, prompts)
  /\ UNCHANGED <<user, pc, callVars, retVars, notice>>
  /\ UNCHANGED <<msg, nsent, inflight, embed, seeded>>

NextDel ==
  \/ NextRace
  \/ \E s \in Sessions : PublicDelete(s) /\ UNCHANGED pagerVars

SpecDel == InitRace /\ [][NextDel]_vars

\* ----------------------------------------------------- transport failures
\* line 25: channel.send rejects. sendQuestion rejects with it; reaction()
\* awaits sendQuestion (line 103) and rejects too, past its prompts.add of
\* line 101; message() does not await it (line 56) and goes on.
SendFail(s) ==
  \E m \in inflight[s] :
    /\ inflight' = [inflight EXCEPT ![s] = @ \ {m}]
    /\ IF pc[s] = "sendq" /\ m = nsent[s]
         THEN Return(s, "Threw", Void)
         ELSE UNCHANGED <<pc, retVars>>
    /\ UNCHANGED <<prompts, user, callVars, notice>>
    /\ UNCHANGED <<msg, nsent, deleted, embed, seeded>>

\* line 104: a this.msg.react(r) rejects, Promise.all and reaction() with it
ReactFail(s) ==
  /\ pc[s] = "react"
  /\ Return(s, "Threw", Void)
  /\ UNCHANGED <<prompts, user, callVars, notice, uiVars>>

NextFail ==
  \/ NextOne
  \/ SendFail(1) /\ UNCHANGED pagerVars
  \/ ReactFail(1) /\ UNCHANGED pagerVars

SpecFail == InitOne /\ [][NextFail]_vars

\* ------------------------------------------------------------- fairness
\* lines 58 and 106: an await of session s ends, with an input or empty at
\* the deadline ({ max: 1, time })
AwaitEnds(s) ==
  \/ MessageInput(s, Texts) /\ UNCHANGED pagerVars
  \/ MessageTimeout(s) /\ UNCHANGED pagerVars
  \/ ReactionInput(s) /\ UNCHANGED pagerVars
  \/ ReactionTimeout(s) /\ UNCHANGED pagerVars

\* The timer ends every await that no input ends, and the requests that
\* reaction() awaits (lines 103-104) complete.
SpecLive ==
  /\ Spec
  /\ WF_vars(AwaitEnds(1))
  /\ WF_vars(SendDone(1) /\ UNCHANGED pagerVars)
  /\ WF_vars(ReactDone(1) /\ UNCHANGED pagerVars)

\* ================================================================== claims
SameUser(s, t) == s # t /\ user[s] = user[t]
Awaiting(s) == pc[s] = "await"
Terminal == {"Resolved", "Cancelled", "TimedOut"}

\* everything the model holds about session t
SessionState(t) ==
  <<pc[t], kind[t], options[t], react[t], choices[t], initial[t], input[t],
    outcome[t], result[t], notice[t], msg[t], nsent[t], inflight[t],
    deleted[t], embed[t], seeded[t]>>

\* this step is a message() / reaction() / chooseOne() call on the idle session s
CallStep(s) ==
  /\ pc[s] = "idle"
  /\ \/ pc'[s] # "idle"
     \/ outcome'[s] # outcome[s]
     \/ notice'[s] # notice[s]

\* this step ends the await of session s with a text message of the user
ReceivesText(s) ==
  /\ pc[s] = "await"
  /\ kind[s] \in {"message", "chooseOne"}
  /\ input'[s].tag = "text"
  /\ (input'[s] # input[s] \/ pc'[s] # pc[s])

\* this step ends the await of session s with a reaction of the user
ReceivesEmoji(s) ==
  /\ pc[s] = "await"
  /\ kind[s] = "reaction"
  /\ input'[s].tag = "emoji"
  /\ (input'[s] # input[s] \/ pc'[s] # pc[s])

\* this step ends the await of session s with no input, at the deadline
TimesOut(s) == pc[s] = "await" /\ pc'[s] = "idle" /\ outcome'[s] = "TimedOut"

\* the call of session s, which held the registry entry, returns in this step
Returns(s) == pc[s] # "idle" /\ pc'[s] = "idle" /\ outcome'[s] \in Terminal

\* the session re-prompts: it stays in its call, the question re-rendered
\* with the error line
Reprompts(s) ==
  /\ pc'[s] \in {"await", "react"}
  /\ outcome'[s] = "Pending"
  /\ embed'[s] = "error"
  /\ initial'[s] = FALSE

\* the Validator of the specification: the pattern is found in the candidate,
\* or the allow-list is empty or holds the candidate
Found(pat, t) == \E i \in 1..(Len(t) + 1), j \in 0..Len(t) : SubSeq(t, i, j) = pat
Listed(items, t) == \E i \in DOMAIN items : items[i] = t
ValidatorAccepts(spec, candidate) ==
  IF spec.kind = "RegExp" THEN Found(spec.pat, candidate)
  ELSE spec.items = <<>> \/ Listed(spec.items, candidate)

\* the non-empty prefixes of "quit", and every prefix of it
QuitPrefixes == {<<"q">>, <<"q", "u">>, <<"q", "u", "i">>, <<"q", "u", "i", "t">>}
QuitPrefix(t) == toLowerCase(t) \in QuitPrefixes
AnyQuitPrefix(t) == t = <<>> \/ QuitPrefix(t)

\* C1: at most one session of a user awaits input at any instant, and a call
\* made while another session of the user awaits returns no result and leaves
\* every other session, the awaiting one included, exactly as it was.
C1_Step ==
  \A s \in Sessions :
    (CallStep(s) /\ \E t \in Sessions : SameUser(s, t) /\ Awaiting(t))
      => /\ pc'[s] = "idle"
         /\ outcome'[s] = "Refused"
         /\ result'[s] = Void
         /\ \A t \in Sessions \ {s} : SessionState(t)' = SessionState(t)

C1_OneAwaiting ==
  /\ [](\A s, t \in Sessions : SameUser(s, t) => ~(Awaiting(s) /\ Awaiting(t)))
  /\ [][C1_Step]_vars

C1_Witness ==
  \E s, t \in Sessions :
    /\ SameUser(s, t)
    /\ Awaiting(t)
    /\ pc[s] = "idle"
    /\ outcome[s] = "Refused"
    /\ result[s] = Void

\* C2: when a call that held the registry entry returns (resolved, cancelled
\* or timed out, after any number of retries), its user is not in the registry.
C2_ReleasedOnReturn ==
  [][\A s \in Sessions : Returns(s) => user[s] \notin prompts']_vars

C2_Witness ==
  \E s \in Sessions :
    /\ pc[s] = "idle"
    /\ outcome[s] = "Resolved"
    /\ initial[s] = FALSE
    /\ user[s] \notin prompts

\* C3: an awaiting message() session that receives a non-empty prefix of
\* "quit", in any letter case, ends Cancelled whatever the validation spec:
\* it sends the cancellation notice and returns no result.
C3_QuitCancels ==
  [][\A s \in Sessions :
       (ReceivesText(s) /\ QuitPrefix(input'[s].content))
         => /\ pc'[s] = "idle"
            /\ outcome'[s] = "Cancelled"
            /\ notice'[s] = "Successfully cancelled the prompt!"
            /\ result'[s] = Void]_vars

C3_Witness ==
  /\ pc[1] = "idle"
  /\ kind[1] = "message"
  /\ outcome[1] = "Cancelled"
  /\ input[1] = TextInput(<<"Q", "U">>)
  /\ ValidatorAccepts(options[1], <<"Q", "U">>)
  /\ notice[1] = "Successfully cancelled the prompt!"

\* C4 as stated: a message() call whose first input is a text the Validator
\* accepts returns exactly that text on the first attempt, its user out of the
\* registry.
C4_AcceptedReturnsInput ==
  [][\A s \in Sessions :
       (/\ ReceivesText(s)
        /\ kind[s] = "message"
        /\ initial[s]
        /\ ValidatorAccepts(options[s], input'[s].content))
         => /\ pc'[s] = "idle"
            /\ outcome'[s] = "Resolved"
            /\ result'[s] = StringResult(input'[s].content)
            /\ user[s] \notin prompts']_vars

\* C4 amended: the same, for an accepted text that is not a prefix of "quit"
\* in any letter case (the empty text is one).
C4_AcceptedNotQuitReturnsInput ==
  [][\A s \in Sessions :
       (/\ ReceivesText(s)
        /\ kind[s] = "message"
        /\ initial[s]
        /\ ValidatorAccepts(options[s], input'[s].content)
        /\ ~AnyQuitPrefix(input'[s].content))
         => /\ pc'[s] = "idle"
            /\ outcome'[s] = "Resolved"
            /\ result'[s] = StringResult(input'[s].content)
            /\ user[s] \notin prompts']_vars

C4_Witness ==
  /\ pc[1] = "idle"
  /\ kind[1] = "message"
  /\ initial[1]
  /\ options[1] = RegExpSpec(<<"q">>)
  /\ input[1] = TextInput(<<"q", "b">>)
  /\ outcome[1] = "Resolved"
  /\ result[1] = StringResult(<<"q", "b">>)
  /\ user[1] \notin prompts

\* C5: a session creates at most one UI message, whenever the user's replies
\* arrive: every render after the first edits it.
C5_OneUiMessage == \A s \in Sessions : nsent[s] <= 1

\* C6: when an await ends at the deadline the session sends "The prompt timed
\* out!", every UI message it has sent or is sending is deleted, it returns no
\* result and its user is not in the registry.
C6_TimeoutCleansUp ==
  [][\A s \in Sessions :
       TimesOut(s)
         => /\ notice'[s] = "The prompt timed out!"
            /\ result'[s] = Void
            /\ user[s] \notin prompts'
            /\ \A m \in 1..nsent[s] : m \in deleted'[s]]_vars

Decimal ==
  << <<"1">>, <<"2">>, <<"3">>, <<"4">>, <<"5">>, <<"6">>, <<"7">>, <<"8">>, <<"9">>,
     <<"1", "0">>, <<"1", "1">>, <<"1", "2">> >>

\* C8: with a non-empty choice list of length N, chooseOne resolves with
\* choices[i-1] when the user types the decimal string of i in 1..N; a text
\* that is neither such a string nor a prefix of "quit" re-prompts; a quit
\* prefix or a timeout makes chooseOne return no result.
C8_Step(s) ==
  LET N == Len(choices[s])
      t == input'[s].content
      isIndex == \E i \in 1..N : t = Decimal[i]
  IN
  /\ (ReceivesText(s) /\ isIndex)
       => /\ pc'[s] = "idle"
          /\ outcome'[s] = "Resolved"
          /\ \E i \in 1..N :
               /\ t = Decimal[i]
               /\ result'[s].tag = "elem"
               /\ result'[s].elem = choices[s][i]
  /\ (ReceivesText(s) /\ ~isIndex /\ ~AnyQuitPrefix(t)) => Reprompts(s)
  /\ (ReceivesText(s) /\ QuitPrefix(t)) => (pc'[s] = "idle" /\ result'[s] = Void)
  /\ TimesOut(s) => result'[s] = Void

C8_ChooseOne ==
  [][\A s \in Sessions :
       (kind[s] = "chooseOne" /\ Len(choices[s]) >= 1) => C8_Step(s)]_vars

C8_Witness ==
  /\ pc[1] = "idle"
  /\ kind[1] = "chooseOne"
  /\ choices[1] = <<"A", "B">>
  /\ initial[1] = FALSE
  /\ input[1] = TextInput(<<"2">>)
  /\ outcome[1] = "Resolved"
  /\ result[1].elem = "B"

\* C9: a call that finds its user in the registry changes nothing: the
\* registry, every UI message, reaction and pending await stay as they are;
\* the call only sends "You already have another prompt open!" and returns no
\* result.
C9_RefusedChangesNothing ==
  [][\A s \in Sessions :
       (CallStep(s) /\ user[s] \in prompts)
         => /\ prompts' = prompts
            /\ pc' = pc
            /\ UNCHANGED <<user, callVars, uiVars>>
            /\ \A t \in Sessions \ {s} : SessionState(t)' = SessionState(t)
            /\ notice'[s] = "You already have another prompt open!"
            /\ outcome'[s] = "Refused"
            /\ result'[s] = Void]_vars

C9_Witness ==
  \E s, t \in Sessions :
    /\ SameUser(s, t)
    /\ pc[t] \in {"sendq", "react", "await"}
    /\ user[s] \in prompts
    /\ pc[s] = "idle"
    /\ outcome[s] = "Refused"
    /\ notice[s] = "You already have another prompt open!"

\* the stable identity of an emoji: its custom id if it has one, else its name
Identity(emoji) == IF emoji.id = <<>> THEN emoji.name ELSE emoji.id

\* C10: reaction() resolves, with the emoji object, exactly when the Validator
\* accepts the emoji's stable identity, for a pattern and for an allow-list;
\* a rejected reaction re-prompts.
C10_ReactionByIdentity ==
  [][\A s \in Sessions :
       ReceivesEmoji(s)
         => IF ValidatorAccepts(options[s], Identity(input'[s].emoji))
              THEN /\ pc'[s] = "idle"
                   /\ outcome'[s] = "Resolved"
                   /\ result'[s] = EmojiResult(input'[s].emoji)
              ELSE Reprompts(s)]_vars

\* the number each argument of the model parses to, for those that start
\* with a number
PageNumbers ==
  (<<"0">> :> 0) @@ (<<"-", "1">> :> (0 - 1)) @@ (<<"1">> :> 1) @@ (<<"2">> :> 2)
  @@ (<<"3", "x">> :> 3) @@ (<<"1", "0">> :> 10) @@ (<<"1", "1">> :> 11)

\* the index of the page the command is to display for an argument
Displayed(arg) ==
  IF arg \in DOMAIN PageNumbers /\ PageNumbers[arg] \in 1..NumPages
    THEN PageNumbers[arg] - 1
    ELSE 0

\* a reaction is handled while the collectors run
PagerStep == pgPc = "live" /\ pgPc' = "live" /\ pagerVars' # pagerVars

\* C11: troubleshoot with an argument that parses to n in 1..10 displays
\* pages[n-1], with any other argument the index; for n >= 2 the page is
\* static (no navigation reaction, no collector: reactions change nothing and
\* stay), otherwise the index gets the four navigation reactions before the
\* collectors run.
C11_PageArgument ==
  /\ [][/\ pgPc = "idle" /\ pgPc' # "idle"
             => /\ shown' = Displayed(pgArg')
                /\ (pgPc' = "static") = (Displayed(pgArg') >= 1)
                /\ (pgPc' = "seeding") = (Displayed(pgArg') = 0)
        /\ pgPc = "static"
             => /\ pgPc' = "static"
                /\ navSeeded' = 0
                /\ shown' = shown
                /\ nedit' = nedit
                /\ \A e \in PagerEmojis : reacted[e] \subseteq reacted'[e]]_vars
  /\ [](pgPc = "live" => navSeeded = Len(NavEmojis) /\ Displayed(pgArg) = 0)

C11_Witness ==
  /\ pgPc = "static"
  /\ pgArg = <<"1", "0">>
  /\ shown = NumPages - 1
  /\ reacted["forward"] = PagerUsers

\* the index a navigation emoji leads to from index p
Target(p, e) ==
  LET last == NumPages - 1
  IN CASE e = "rewind" -> 0
       [] e = "fastforward" -> last
       [] e = "back" -> IF p - 1 < 0 THEN 0 ELSE p - 1
       [] e = "forward" -> IF p + 1 > last THEN last ELSE p + 1
       [] OTHER -> p

\* C18: the page index stays within 0..pages.length-1 and the message shows
\* that page; a reaction of the author moves the index to where its emoji
\* leads (rewind 0, fast-forward last, back -1, forward +1, stopping at both
\* ends, any other emoji nowhere), and the message is edited exactly when the
\* index changes.
C18_PageInRange ==
  /\ [](page \in 0..(NumPages - 1) /\ shown = page)
  /\ [][/\ nedit' # nedit => page' # page
        /\ PagerStep /\ pgEvent'.user = "author"
             => /\ page' = Target(page, pgEvent'.emoji)
                /\ (nedit' = nedit + 1) = (page' # page)
                /\ (nedit' = nedit) = (page' = page)]_vars

C18_Witness ==
  /\ pgPc = "live"
  /\ page = NumPages - 1
  /\ nedit = 1
  /\ pgEvent = [user |-> "author", emoji |-> "forward"]

\* C19: once the command has run, the page index, the displayed page and the
\* number of edits change only on a reaction of the author; a reaction of
\* another user while the collectors run leaves them as they are and leaves no
\* user but the bot on that reaction.
C19_OnlyAuthorTurns ==
  [][/\ pgPc # "idle" /\ <<page, shown, nedit>>' # <<page, shown, nedit>>
          => pgEvent'.user = "author"
     /\ PagerStep /\ pgEvent'.user # "author"
          => /\ <<page, shown, nedit>>' = <<page, shown, nedit>>
             /\ reacted'[pgEvent'.emoji] = {}]_vars

C19_Witness ==
  /\ pgPc = "live"
  /\ pgEvent = [user |-> "other", emoji |-> "forward"]
  /\ reacted["forward"] = {}
  /\ reacted["back"] = PagerUsers
  /\ page = 0
  /\ nedit = 0

\* C12: in message() no input is consumed before the render of the question
\* has completed: when a text ends the await, no send of the session is still
\* in flight and the UI message exists.
C12_NoInputBeforeRender ==
  [][\A s \in Sessions :
       ReceivesText(s) => inflight[s] = {} /\ msg[s] # 0]_vars

\* C13: a rejected input never ends the call. From its acquisition to its
\* return a call keeps its user in the registry at every step boundary, so it
\* is never refused; a rejected input re-prompts; and the call returns only at
\* the deadline, on a prefix of "quit" (message only), or on an input the
\* Validator accepts.
C13_RejectedNeverEnds ==
  /\ [](\A s \in Sessions : pc[s] # "idle" => user[s] \in prompts)
  /\ [][\A s \in Sessions :
          /\ pc[s] # "idle" => outcome'[s] # "Refused"
          /\ (pc[s] # "idle" /\ pc'[s] = "idle")
               => \/ outcome'[s] = "TimedOut" /\ input'[s] = NoInput
                  \/ /\ outcome'[s] = "Cancelled"
                     /\ kind[s] # "reaction"
                     /\ AnyQuitPrefix(input'[s].content)
                  \/ /\ outcome'[s] = "Resolved"
                     /\ IF kind[s] = "reaction"
                          THEN \/ ValidatorAccepts(options[s], input'[s].emoji.name)
                               \/ ValidatorAccepts(options[s], Identity(input'[s].emoji))
                          ELSE ValidatorAccepts(options[s], input'[s].content)
          /\ (ReceivesText(s) \/ ReceivesEmoji(s)) /\ pc'[s] # "idle"
               => Reprompts(s) /\ user[s] \in prompts']_vars

C13_Witness ==
  \E s, t \in Sessions :
    /\ SameUser(s, t)
    /\ pc[s] = "await"
    /\ initial[s] = FALSE
    /\ input[s].tag \in {"text", "emoji"}
    /\ outcome[s] = "Pending"
    /\ user[s] \in prompts
    /\ outcome[t] = "Refused"

\* C14: chooseOne never resolves on a text that is not the decimal string of
\* an index in 1..N, for every list length N >= 0: such a text cancels when it
\* is a prefix of "quit" and is rejected with a re-prompt otherwise.
C14_OnlyIndexResolves ==
  [][\A s \in Sessions :
       LET t == input'[s].content
           isIndex == \E i \in 1..Len(choices[s]) : t = Decimal[i]
       IN (ReceivesText(s) /\ kind[s] = "chooseOne" /\ ~isIndex)
            => /\ outcome'[s] # "Resolved"
               /\ IF AnyQuitPrefix(t)
                    THEN pc'[s] = "idle" /\ outcome'[s] = "Cancelled"
                    ELSE Reprompts(s)]_vars

\* C15: with the public delete() callable on every session, a user with a
\* session awaiting input is in the registry.
C15_AwaitingIsRegistered ==
  \A s \in Sessions : Awaiting(s) => user[s] \in prompts

\* C16: also when a send or a reaction of the call fails, a user with no
\* message() / reaction() call in progress is not in the registry.
C16_IdleUserNotRegistered ==
  \A u \in Users :
    (\A s \in Sessions : user[s] = u => pc[s] = "idle") => u \notin prompts

\* the await of session s ends with an input that is rejected
Rejected(s) == (ReceivesText(s) \/ ReceivesEmoji(s)) /\ pc'[s] # "idle"

\* C17: with the timer fair, no await lasts forever (the session leaves the
\* await again and again, or inputs keep ending it), and a call in which only
\* finitely many inputs are rejected returns Resolved, Cancelled or TimedOut.
C17_CallReturns ==
  /\ []<>(~Awaiting(1)) \/ []<><<ReceivesText(1) \/ ReceivesEmoji(1)>>_vars
  /\ <>[][~Rejected(1)]_vars
       => (pc[1] # "idle" ~> (pc[1] = "idle" /\ outcome[1] \in Terminal))

C17_Witness ==
  /\ pc[1] = "idle"
  /\ outcome[1] = "TimedOut"
  /\ initial[1] = FALSE
  /\ input[1] = NoInput

====
